---- MODULE Spec2Model ----
(***************************************************************************)
(* Payment Tracker: the timezone utilities, the dashboard filter and       *)
(* summary, the report edge function and the App's store handlers.         *)
(*                                                                         *)
(* Representation.  An instant (a Date's time value, an ISO timestamp of   *)
(* the store) is the number of whole minutes since 1970-01-01T00:00Z.  A   *)
(* wall-clock value (the text of a datetime-local input, the fields a      *)
(* toLocaleString call prints) is a record [y, m, d, hh, mi].  A date key  *)
(* ("YYYY-MM-DD") is a tuple <<y, m, d>>; the empty string is <<>>.        *)
(* Amounts are whole cents.                                                *)
(***************************************************************************)
EXTENDS Integers, Sequences, FiniteSets, TLC

VARIABLES
    viewerTZ,        \* the browser's own time zone (the runtime's local zone)
    formData,        \* PaymentForm state: the datetime-local value, or NoValue
    submitted,       \* the timestamp handleAddPayment/handleUpdatePayment sends
    formTouched,     \* whether the user has changed the datetime-local input
    formPc,          \* PaymentForm position: "mount" | "open" | "sent"
    store,           \* the payments table: a set of rows
    payments,        \* App state: the loaded list
    searchTerm,      \* App state: search text, a sequence of characters
    dateFrom,        \* App state: date key or <<>>
    dateTo,          \* App state: date key or <<>>
    paymentMethod,   \* App state: method filter or ""
    report,          \* the report downloaded for the current view, or NoReport
    nav,             \* day navigation since the dates were last set: the
                     \* dateFrom it started from and the buttons pressed
    isLoading,       \* App state
    isFormOpen,      \* App state: the add form is mounted
    editingPayment,  \* App state: the row being edited, or NoRow
    isSubmitting,    \* PaymentForm state of the add and of the edit form
    tasks,           \* the async handlers started so far, with their position
    nextId,          \* the next id the store assigns
    alerts,          \* number of alert() notifications shown
    downloads,       \* number of report downloads started
    schema,          \* the database schema the migrations have built
    applied,         \* the migrations applied, in order
    verifyJWT,       \* whether the functions gateway demands a project JWT
    answer,          \* the last response of the REST API or report endpoint
    runs,            \* the filter and summary computations observed so far
    prompt,          \* the last confirm() dialog of a Delete button and its answer
    blocked,         \* the last submission the form's required inputs stopped
    session,         \* what useAuth() reports: the user and the loading flag
    screen           \* what Root renders: "loading" | "login" | "app"

formVars == <<formData, submitted, formTouched, formPc>>
dataVars == <<store, payments>>
criteriaVars == <<searchTerm, dateFrom, dateTo, paymentMethod>>

appVars == <<isLoading, isFormOpen, editingPayment, isSubmitting, tasks,
            nextId, alerts, downloads>>
serverVars == <<schema, applied, verifyJWT, answer>>
uiVars == <<prompt, blocked>>
authVars == <<session, screen>>
envVars == <<viewerTZ, serverVars, runs, uiVars, authVars>>
vars == <<envVars, formVars, dataVars, criteriaVars, report, nav, appVars>>

NoValue == "none"

\* No report in hand.
NoReport == [status |-> 0]

\* No row (null).
NoRow == [id |-> 0, client_name |-> <<>>, payment_method |-> "",
          amount_paid |-> 0, timestamp |-> 0, service_type |-> ""]

\* No day navigation under way.
NoNav == [origin |-> <<>>, trail |-> ""]

\* No Delete button has been clicked yet.
NoPrompt == [id |-> 0, confirmed |-> FALSE]

\* No submission has been stopped by a required input yet.
NoBlocked == [form |-> ""]

\* useAuth().user when nobody is signed in (null).
NoUser == ""

\* The session of a signed-in user, once the provider has finished loading.
SignedIn == [user |-> "owner", loading |-> FALSE]

RootIgnoringLoading(s) ==
    IF s.user # NoUser THEN "app"
    ELSE IF s.loading THEN "loading" ELSE "login"

\* Root: the spinner while loading, else <App /> for a user, else <Login />.
Root(s) ==
    IF s.loading THEN "loading"
    ELSE IF s.user # NoUser THEN "app" ELSE "login"

\* The dashboard is on screen and nothing has been clicked.
Attended ==
    /\ prompt = NoPrompt /\ blocked = NoBlocked
    /\ session = SignedIn /\ screen = Root(session)

(***************************************************************************)
(* Calendar arithmetic of the runtime's Date (proleptic Gregorian).        *)
(***************************************************************************)
MinutesPerDay == 24 * 60

DaysFromCivil(y, m, d) ==
    LET yy  == IF m <= 2 THEN y - 1 ELSE y
        era == yy \div 400
        yoe == yy - era * 400
        mp  == IF m > 2 THEN m - 3 ELSE m + 9
        doy == (153 * mp + 2) \div 5 + d - 1
        doe == yoe * 365 + yoe \div 4 - yoe \div 100 + doy
    IN  era * 146097 + doe - 719468

\* Month and day of day doy of the year that starts on March 1 of year y0.
CivilOfYear(y0, doy) ==
    LET mp == (5 * doy + 2) \div 153
        d  == doy - (153 * mp + 2) \div 5 + 1
        m  == IF mp < 10 THEN mp + 3 ELSE mp - 9
    IN  <<IF m <= 2 THEN y0 + 1 ELSE y0, m, d>>

\* Date of day doe of the 400-year era.
CivilOfEra(era, doe) ==
    LET yoe == (doe - doe \div 1460 + doe \div 36524 - doe \div 146096) \div 365
    IN  CivilOfYear(yoe + era * 400,
                    doe - (365 * yoe + yoe \div 4 - yoe \div 100))

CivilFromDays(z) ==
    LET zz  == z + 719468
        era == zz \div 146097
    IN  CivilOfEra(era, zz - era * 146097)

\* Day of week of a day number, 0 = Sunday (1970-01-01 was a Thursday).
WeekDay(days) == (days + 4) % 7

\* The wall-clock fields of a minute count read as UTC, and back.
WallAt(ymd, rest) ==
    [y |-> ymd[1], m |-> ymd[2], d |-> ymd[3],
     hh |-> rest \div 60, mi |-> rest % 60]

WallOf(n) == WallAt(CivilFromDays(n \div MinutesPerDay), n % MinutesPerDay)

MinutesOf(w) ==
    DaysFromCivil(w.y, w.m, w.d) * MinutesPerDay + w.hh * 60 + w.mi

UTC(y, m, d, hh, mi) == MinutesOf([y |-> y, m |-> m, d |-> d, hh |-> hh, mi |-> mi])

DateKeyOf(w) == <<w.y, w.m, w.d>>

(***************************************************************************)
(* Time zones of the runtime (IANA rules in force since 2007).             *)
(***************************************************************************)
TIMEZONE == "America/New_York"

Zones == {"America/New_York", "UTC", "Asia/Tokyo", "Pacific/Tongatapu"}

\* n-th Sunday (n >= 1) of month m of year y, as a day number.
NthSunday(y, m, n) ==
    LET first == DaysFromCivil(y, m, 1)
    IN  first + ((7 - WeekDay(first)) % 7) + 7 * (n - 1)

\* US daylight time: second Sunday of March 02:00 EST (07:00Z) until the
\* first Sunday of November 02:00 EDT (06:00Z).
InUSDaylightTimeOf(y, t) ==
    /\ NthSunday(y, 3, 2) * MinutesPerDay + 7 * 60 <= t
    /\ t < NthSunday(y, 11, 1) * MinutesPerDay + 6 * 60

InUSDaylightTime(t) == InUSDaylightTimeOf(WallOf(t).y, t)

\* Offset from UTC, in minutes, of zone tz at instant t.
ZoneOffset(tz, t) ==
    CASE tz = "America/New_York" -> IF InUSDaylightTime(t) THEN -240 ELSE -300
      [] tz = "UTC"               -> 0
      [] tz = "Asia/Tokyo"        -> 540
      [] tz = "Pacific/Tongatapu" -> 780

\* The largest offset the zone ever has.
MaxZoneOffset(tz) ==
    IF tz = "America/New_York" THEN -240 ELSE ZoneOffset(tz, 0)

\* Wall-clock fields of instant t in zone tz (toLocaleString with timeZone,
\* or getFullYear/getMonth/getDate/... for the local zone).
ZonedWall(tz, t) == WallOf(t + ZoneOffset(tz, t))

\* The instant a wall-clock value denotes in zone tz (new Date(y, m, d, ...)
\* and the parse of a date-time text without offset).  A repeated or skipped
\* wall-clock value is read with the offset in force before the transition.
ZonedInstant(tz, w) ==
    LET n == MinutesOf(w)
    IN  n - ZoneOffset(tz, n - MaxZoneOffset(tz))

(***************************************************************************)
(* utils/timezone                                                          *)
(***************************************************************************)
\* The datetime-local text of instant t in Eastern Time: the month, day,
\* year, hour and minute that toLocaleString prints for America/New_York,
\* reassembled as YYYY-MM-DDTHH:mm.
getDateTimeLocalValueInET(dateString) == ZonedWall(TIMEZONE, dateString)

\* etDate parses the text in the runtime's local zone; utcDate parses, again
\* in the local zone, the UTC fields that toLocaleString prints for etDate;
\* the difference is added to etDate.
convertLocalDateTimeToUTC(localDateTimeString) ==
    LET etDate        == ZonedInstant(viewerTZ, localDateTimeString)
        utcDate       == ZonedInstant(viewerTZ, ZonedWall("UTC", etDate))
        offset        == etDate - utcDate
        correctedDate == etDate + offset
    IN  correctedDate

\* "Oct 19, 2025, 10:00 AM": month, day, year, 12-hour clock, Eastern Time.
TwelveHour(w) ==
    [m |-> w.m, d |-> w.d, y |-> w.y,
     h |-> IF w.hh % 12 = 0 THEN 12 ELSE w.hh % 12,
     mi |-> w.mi, ampm |-> IF w.hh < 12 THEN "AM" ELSE "PM"]

formatDateInET(dateString) == TwelveHour(ZonedWall(TIMEZONE, dateString))

(***************************************************************************)
(* supabase/migrations: the schema of the payments table.                  *)
(***************************************************************************)
Commands == {"SELECT", "INSERT", "UPDATE", "DELETE"}

PoliciesFor(role) == { [role |-> role, cmd |-> c] : c \in Commands }

NoSchema ==
    [table |-> FALSE, columns |-> {}, methodCheck |-> {}, methodChecked |-> FALSE,
     amountPositive |-> FALSE, rls |-> FALSE, policies |-> {},
     touchTrigger |-> FALSE, functions |-> {}]

\* 20251018234611_create_payments_table.sql
CreatePaymentsTable(sc) ==
    [sc EXCEPT !.table = TRUE,
               !.columns = {"id", "client_name", "payment_method", "amount_paid",
                            "timestamp", "created_at", "updated_at"},
               !.methodCheck = {"Cash", "Zelle", "Check"},
               !.methodChecked = TRUE,
               !.amountPositive = TRUE,
               !.touchTrigger = TRUE,
               !.rls = TRUE,
               !.policies = PoliciesFor("authenticated") \cup PoliciesFor("anon")]

\* 20251019002117_add_service_type_to_payments.sql
AddServiceType(sc) == [sc EXCEPT !.columns = @ \cup {"service_type"}]

\* add Booker CC payment method: the CHECK constraint is replaced.
AddBookerCC(sc) ==
    [sc EXCEPT !.methodChecked = TRUE,
               !.methodCheck = {"Cash", "Zelle", "Check", "Booker CC"}]

\* allow negative payment amounts: the CHECK (amount_paid > 0) is dropped.
AllowNegativeAmounts(sc) == [sc EXCEPT !.amountPositive = FALSE]

\* 20251022203127_remove_anonymous_access_policies.sql
RemoveAnonymousAccess(sc) == [sc EXCEPT !.policies = @ \ PoliciesFor("anon")]

\* 20251024004136_create_get_payments_by_date_function.sql
CreateGetPaymentsByDate(sc) ==
    [sc EXCEPT !.functions = @ \cup {"get_payments_by_date_et"}]

MigrationNames ==
    {"create_payments_table", "add_service_type", "add_booker_cc",
     "allow_negative_amounts", "remove_anonymous_access",
     "create_get_payments_by_date"}

Migrate(name, sc) ==
    CASE name = "create_payments_table"       -> CreatePaymentsTable(sc)
      [] name = "add_service_type"            -> AddServiceType(sc)
      [] name = "add_booker_cc"               -> AddBookerCC(sc)
      [] name = "allow_negative_amounts"      -> AllowNegativeAmounts(sc)
      [] name = "remove_anonymous_access"     -> RemoveAnonymousAccess(sc)
      [] name = "create_get_payments_by_date" -> CreateGetPaymentsByDate(sc)

\* The files that carry a version are applied in version order; every other
\* migration alters the table that the first one creates.
TimestampOrder ==
    <<"create_payments_table", "add_service_type", "remove_anonymous_access",
      "create_get_payments_by_date">>

RECURSIVE MigrateAll(_, _)
MigrateAll(names, sc) ==
    IF names = <<>> THEN sc
    ELSE MigrateAll(Tail(names), Migrate(Head(names), sc))

AllMigrations ==
    <<"create_payments_table", "add_service_type", "add_booker_cc",
      "allow_negative_amounts", "remove_anonymous_access",
      "create_get_payments_by_date">>

NoAnswer == [path |-> "", status |-> 0]

\* The project as the dashboard runs against it: every migration applied.
Deployed ==
    /\ applied = AllMigrations
    /\ schema = MigrateAll(AllMigrations, NoSchema)
    /\ verifyJWT = TRUE
    /\ answer = NoAnswer

(***************************************************************************)
(* PaymentForm: the timestamp field from mount to submission.              *)
(***************************************************************************)
ClockSpan == 8

ClockAnchors ==
    { UTC(2025, 10, 19, 12, 0),    \* an ordinary day, EDT
      UTC(2025, 10, 19, 22, 0),    \* around midnight UTC
      UTC(2025, 1, 1, 3, 0),       \* New Year, EST
      UTC(2025, 3, 9, 5, 0),       \* spring forward at 07:00Z
      UTC(2025, 11, 2, 4, 0) }     \* fall back at 06:00Z

\* Instants a stored payment can carry: minute granularity, half-hour samples.
ClockInstants == { a + 30 * k : a \in ClockAnchors, k \in 0..ClockSpan }

\* Values a user can type into the datetime-local input.
FormWalls == { WallOf(t) : t \in ClockAnchors }

\* An instant whose Eastern wall-clock reading occurs twice (fall back).
InAmbiguityWindow(t) ==
    \E u \in {t - 60, t + 60} :
        ZonedWall(TIMEZONE, u) = ZonedWall(TIMEZONE, t)

\* A wall-clock value that Eastern Time skips (spring forward) or repeats.
IrregularETWall(w) ==
    LET t == ZonedInstant(TIMEZONE, w)
    IN  ZonedWall(TIMEZONE, t) # w \/ InAmbiguityWindow(t)

\* The edit form has just been opened on the one payment of the store.
FormInit ==
    /\ viewerTZ \in Zones
    /\ Deployed
    /\ runs = {}
    /\ Attended
    /\ \E t \in ClockInstants :
          editingPayment = [id |-> 1, client_name |-> <<"A","n","n">>,
                            payment_method |-> "Cash", amount_paid |-> 10000,
                            timestamp |-> t, service_type |-> ""]
    /\ store = {editingPayment}
    /\ payments = <<editingPayment>>
    /\ formData = NoValue
    /\ submitted = NoValue
    /\ formTouched = FALSE
    /\ formPc = "mount"
    /\ searchTerm = <<>> /\ dateFrom = <<>> /\ dateTo = <<>>
    /\ paymentMethod = ""
    /\ report = NoReport
    /\ nav = NoNav
    /\ isLoading = FALSE /\ isFormOpen = FALSE
    /\ isSubmitting = [add |-> FALSE, edit |-> FALSE]
    /\ tasks = <<>> /\ nextId = 2 /\ alerts = 0 /\ downloads = 0

\* useEffect on initialData: the form is populated from the stored payment.
FormPopulate ==
    /\ formPc = "mount"
    /\ formData' = getDateTimeLocalValueInET(editingPayment.timestamp)
    /\ formPc' = "open"
    /\ UNCHANGED <<appVars, envVars, submitted, formTouched, dataVars, criteriaVars, report, nav>>

\* onChange of the timestamp input.
FormChange(w) ==
    /\ formPc = "open"
    /\ formData' = w
    /\ formTouched' = TRUE
    /\ UNCHANGED <<appVars, envVars, submitted, formPc, dataVars, criteriaVars, report, nav>>

\* handleSubmit converts the field and passes it to onSubmit, which sends
\* new Date(formData.timestamp).toISOString() to the store.
FormSubmit ==
    /\ formPc = "open"
    /\ submitted' = convertLocalDateTimeToUTC(formData)
    /\ formPc' = "sent"
    /\ UNCHANGED <<appVars, envVars, formData, formTouched, dataVars, criteriaVars, report, nav>>

FormNext ==
    \/ FormPopulate
    \/ \E w \in FormWalls : FormChange(w)
    \/ FormSubmit

FormSpec == FormInit /\ [][FormNext]_vars

\* C3: round trip. An untouched edit form submits the instant it was
\* populated from, for every instant outside the DST ambiguity window:
\* convertLocalDateTimeToUTC(getDateTimeLocalValueInET(t)) = t.
C3_RoundTrip ==
    (formPc = "sent" /\ ~formTouched /\ ~InAmbiguityWindow(editingPayment.timestamp))
        => submitted = editingPayment.timestamp

\* C4: a wall-clock value w entered in the form is stored as the instant
\* whose Eastern Time reading is w, so the table displays w, whatever the
\* browser's zone (w not skipped or repeated by a DST transition).
C4_StoredAsEastern ==
    (formPc = "sent" /\ ~IrregularETWall(formData))
        => /\ submitted = ZonedInstant(TIMEZONE, formData)
           /\ formatDateInET(submitted) = TwelveHour(formData)

(***************************************************************************)
(* Records and the store's list() orders.                                  *)
(***************************************************************************)
Methods == <<"Cash", "Zelle", "Check", "Booker CC">>

NumRecords == 3

SampleNames == << <<"A","n","n">>, <<"b","o","b">>, <<"A","N","N","A">> >>
SampleAmounts == <<10000, 5000, -2000, 2500>>
SampleTimes ==
    << UTC(2025, 10, 19, 14, 0),    \* 10:00 EDT on Oct 19
       UTC(2025, 10, 20, 3, 30),    \* 23:30 EDT on Oct 19, Oct 20 in UTC
       UTC(2025, 10, 19, 23, 30),   \* 19:30 EDT on Oct 19, Oct 20 in Tokyo
       UTC(2025, 10, 19, 3, 30) >>  \* 23:30 EDT on Oct 18

SampleRecord(i) ==
    LET k == ((i - 1) % 4) + 1
    IN  [id |-> i,
         client_name |-> SampleNames[((i - 1) % 3) + 1],
         payment_method |-> Methods[k],
         amount_paid |-> SampleAmounts[k],
         timestamp |-> SampleTimes[k] + MinutesPerDay * ((i - 1) \div 4),
         service_type |-> ""]

SampleRecords == { SampleRecord(i) : i \in 1..NumRecords }

\* The row of S that an ORDER BY timestamp puts first (ties by id).
RECURSIVE OrderBy(_, _)
OrderBy(S, ascending) ==
    IF S = {} THEN <<>>
    ELSE LET first == CHOOSE r \in S : \A q \in S :
                 \/ r = q
                 \/ (IF ascending THEN r.timestamp < q.timestamp
                                 ELSE r.timestamp > q.timestamp)
                 \/ (r.timestamp = q.timestamp /\ r.id < q.id)
         IN  <<first>> \o OrderBy(S \ {first}, ascending)

\* loadPayments: select * order by timestamp descending.
ListPayments(S) == OrderBy(S, FALSE)

Range(seq) == { seq[i] : i \in 1..Len(seq) }

(***************************************************************************)
(* App.filteredPayments: the dashboard filter.                             *)
(***************************************************************************)
toLowerCase(str) ==
    [i \in 1..Len(str) |->
        CASE str[i] = "A" -> "a"
          [] str[i] = "B" -> "b"
          [] str[i] = "N" -> "n"
          [] str[i] = "O" -> "o"
          [] OTHER -> str[i]]

includes(str, sub) ==
    \E i \in 0..(Len(str) - Len(sub)) : SubSeq(str, i + 1, i + Len(sub)) = sub

AtTime(dateKey, hh, mi) ==
    [y |-> dateKey[1], m |-> dateKey[2], d |-> dateKey[3], hh |-> hh, mi |-> mi]

\* new Date(x.getFullYear(), x.getMonth(), x.getDate()) for a Date x: local
\* midnight of x's calendar date, in a runtime whose local zone is tz.
LocalDateOnlyIn(tz, t) ==
    ZonedInstant(tz, AtTime(DateKeyOf(ZonedWall(tz, t)), 0, 0))

LocalDateOnly(t) == LocalDateOnlyIn(viewerTZ, t)

DashboardKeepsBothBounds(tz, payment) ==
    LET matchesSearch ==
            includes(toLowerCase(payment.client_name), toLowerCase(searchTerm))
        paymentDateOnly == LocalDateOnlyIn(tz, payment.timestamp)
        matchesDateFrom ==
            dateFrom # <<>>
            /\ paymentDateOnly >=
                    LocalDateOnlyIn(tz, ZonedInstant(tz, AtTime(dateFrom, 0, 0)))
        matchesDateTo ==
            dateTo # <<>>
            /\ paymentDateOnly <=
                    LocalDateOnlyIn(tz, ZonedInstant(tz, AtTime(dateTo, 23, 59)))
        matchesMethod ==
            paymentMethod = "" \/ payment.payment_method = paymentMethod
    IN  IF (dateFrom # <<>> \/ dateTo # <<>>)
           /\ ~(matchesDateFrom /\ matchesDateTo)
        THEN FALSE
        ELSE matchesSearch /\ matchesMethod

\* The filter callback as a runtime whose local zone is tz evaluates it.
DashboardKeepsIn(tz, payment) ==
    LET matchesSearch ==
            includes(toLowerCase(payment.client_name), toLowerCase(searchTerm))
        paymentDateOnly == LocalDateOnlyIn(tz, payment.timestamp)
        matchesDateFrom ==
            IF dateFrom = <<>> THEN TRUE
            ELSE paymentDateOnly >=
                    LocalDateOnlyIn(tz, ZonedInstant(tz, AtTime(dateFrom, 0, 0)))
        matchesDateTo ==
            IF dateTo = <<>> THEN TRUE
            ELSE paymentDateOnly <=
                    LocalDateOnlyIn(tz, ZonedInstant(tz, AtTime(dateTo, 23, 59)))
        matchesMethod ==
            paymentMethod = "" \/ payment.payment_method = paymentMethod
    IN  IF (dateFrom # <<>> \/ dateTo # <<>>)
           /\ ~(matchesDateFrom /\ matchesDateTo)
        THEN FALSE
        ELSE matchesSearch /\ matchesMethod

DashboardKeeps(payment) == DashboardKeepsIn(viewerTZ, payment)

filteredPaymentsResorted ==
    OrderBy(Range(SelectSeq(payments, DashboardKeeps)), TRUE)

filteredPayments == SelectSeq(payments, DashboardKeeps)

(***************************************************************************)
(* SummaryCards: the summary reduce.                                       *)
(***************************************************************************)
ZeroSummary == [cash |-> 0, zelle |-> 0, check |-> 0, bookerCC |-> 0, total |-> 0]

SummaryStepNoCheck(acc, payment) ==
    LET amount == payment.amount_paid
        a1 == [acc EXCEPT !.total = @ + amount]
    IN  CASE payment.payment_method = "Cash"  -> [a1 EXCEPT !.cash = @ + amount]
          [] payment.payment_method = "Zelle" -> [a1 EXCEPT !.zelle = @ + amount]
          [] payment.payment_method = "Booker CC" ->
                                             [a1 EXCEPT !.bookerCC = @ + amount]
          [] OTHER -> a1

SummaryStepClamped(acc, payment) ==
    LET amount == IF payment.amount_paid < 0 THEN 0 ELSE payment.amount_paid
        a1 == [acc EXCEPT !.total = @ + amount]
    IN  CASE payment.payment_method = "Cash"  -> [a1 EXCEPT !.cash = @ + amount]
          [] payment.payment_method = "Zelle" -> [a1 EXCEPT !.zelle = @ + amount]
          [] payment.payment_method = "Check" -> [a1 EXCEPT !.check = @ + amount]
          [] payment.payment_method = "Booker CC" ->
                                             [a1 EXCEPT !.bookerCC = @ + amount]
          [] OTHER -> a1

\* One step of the reduce: the total, then the bucket of the method.
SummaryStep(acc, payment) ==
    LET amount == payment.amount_paid
        a1 == [acc EXCEPT !.total = @ + amount]
    IN  CASE payment.payment_method = "Cash"  -> [a1 EXCEPT !.cash = @ + amount]
          [] payment.payment_method = "Zelle" -> [a1 EXCEPT !.zelle = @ + amount]
          [] payment.payment_method = "Check" -> [a1 EXCEPT !.check = @ + amount]
          [] payment.payment_method = "Booker CC" ->
                                             [a1 EXCEPT !.bookerCC = @ + amount]
          [] OTHER -> a1

RECURSIVE SummaryFrom(_, _)
SummaryFrom(acc, list) ==
    IF list = <<>> THEN acc
    ELSE SummaryFrom(SummaryStep(acc, Head(list)), Tail(list))

summaryCarriedOver(list) ==
    SummaryFrom(IF report.status = 200 THEN report.summary ELSE ZeroSummary, list)

summary(list) == SummaryFrom(ZeroSummary, list)

(***************************************************************************)
(* generate-payment-report: the edge function.                             *)
(***************************************************************************)
\* The date key of an instant in Eastern Time.
getETDateString(utcTimestamp) == DateKeyOf(ZonedWall(TIMEZONE, utcTimestamp))

\* a <= b for YYYY-MM-DD strings: character order is field order.
DateKeyLeq(a, b) ==
    \/ a[1] < b[1]
    \/ a[1] = b[1] /\ a[2] < b[2]
    \/ a[1] = b[1] /\ a[2] = b[2] /\ a[3] <= b[3]

ReportKeeps(payment, from, to, method) ==
    LET paymentETDate == getETDateString(payment.timestamp)
        inDateRange   == DateKeyLeq(from, paymentETDate)
                         /\ DateKeyLeq(paymentETDate, to)
        matchesMethod == method = "" \/ payment.payment_method = method
    IN  inDateRange /\ matchesMethod

ReportFilteredPayments(allPayments, from, to, method) ==
    SelectSeq(allPayments, LAMBDA payment : ReportKeeps(payment, from, to, method))

ReportSummaryStep(acc, payment) ==
    LET amount == payment.amount_paid
        a1 == [acc EXCEPT !.total = @ + amount]
    IN  CASE payment.payment_method = "Cash"  -> [a1 EXCEPT !.cash = @ + amount]
          [] payment.payment_method = "Zelle" -> [a1 EXCEPT !.zelle = @ + amount]
          [] payment.payment_method = "Check" -> [a1 EXCEPT !.check = @ + amount]
          [] payment.payment_method = "Booker CC" ->
                                             [a1 EXCEPT !.bookerCC = @ + amount]
          [] OTHER -> a1

RECURSIVE ReportSummaryFrom(_, _)
ReportSummaryFrom(acc, list) ==
    IF list = <<>> THEN acc
    ELSE ReportSummaryFrom(ReportSummaryStep(acc, Head(list)), Tail(list))

generateHTMLReportAlwaysTable(list) ==
    [table |-> TRUE, rows |-> list, noPayments |-> FALSE, count |-> Len(list)]

\* The body of the document: the table with a row per payment when there
\* are payments, the "no-payments" block otherwise; the footer's count.
generateHTMLReport(list) ==
    [table |-> Len(list) > 0,
     rows |-> IF Len(list) > 0 THEN list ELSE <<>>,
     noPayments |-> ~(Len(list) > 0),
     count |-> Len(list)]

ReportResponseRangeChecked(rows, from, to, method) ==
    IF from = <<>> \/ to = <<>> \/ ~DateKeyLeq(from, to)
    THEN [status |-> 400]
    ELSE LET kept == ReportFilteredPayments(OrderBy(rows, TRUE), from, to, method)
         IN  [status |-> 200, dateFrom |-> from, dateTo |-> to,
              paymentMethod |-> method, payments |-> kept,
              summary |-> ReportSummaryFrom(ZeroSummary, kept),
              html |-> generateHTMLReport(kept)]

\* The handler's answer to GET ?dateFrom=&dateTo=&paymentMethod= when the
\* query of the table succeeds: 400 without both dates, else the document.
ReportResponse(rows, from, to, method) ==
    IF from = <<>> \/ to = <<>>
    THEN [status |-> 400]
    ELSE LET kept == ReportFilteredPayments(OrderBy(rows, TRUE), from, to, method)
         IN  [status |-> 200, dateFrom |-> from, dateTo |-> to,
              paymentMethod |-> method, payments |-> kept,
              summary |-> ReportSummaryFrom(ZeroSummary, kept),
              html |-> generateHTMLReport(kept)]

\* PaymentsTable: the empty state, or a row per payment.
PaymentsTable(list) ==
    IF Len(list) = 0
    THEN [emptyState |-> TRUE, rows |-> <<>>]
    ELSE [emptyState |-> FALSE, rows |-> list]

(***************************************************************************)
(* The dashboard's filter controls and the report button.                  *)
(***************************************************************************)
\* Instants at which "now" is read.
NowInstants == { UTC(2025, 10, 19, 15, 0), UTC(2025, 10, 20, 2, 0),
                 UTC(2025, 10, 20, 15, 0) }

getCurrentDateInET(now) == DateKeyOf(ZonedWall(TIMEZONE, now))

SearchTerms == { <<>>, <<"a","n">>, <<"B">> }

DatePicks == { <<2025, 10, 18>>, <<2025, 10, 19>>, <<2025, 10, 20>> }

FilterInit ==
    /\ viewerTZ \in Zones
    /\ Deployed
    /\ runs = {}
    /\ Attended
    /\ store \in SUBSET SampleRecords
    /\ payments = ListPayments(store)
    /\ searchTerm = <<>>
    /\ \E n1, n2 \in NowInstants :
          /\ n1 <= n2
          /\ dateFrom = getCurrentDateInET(n1)
          /\ dateTo = getCurrentDateInET(n2)
    /\ paymentMethod = ""
    /\ report = NoReport
    /\ nav = NoNav
    /\ isLoading = FALSE /\ isFormOpen = FALSE /\ editingPayment = NoRow
    /\ isSubmitting = [add |-> FALSE, edit |-> FALSE]
    /\ tasks = <<>> /\ nextId = 0 /\ alerts = 0 /\ downloads = 0
    /\ formData = NoValue /\ submitted = NoValue
    /\ formTouched = FALSE /\ formPc = "closed"

onSearchChange(value) ==
    /\ ~isLoading
    /\ searchTerm' = value
    /\ report' = NoReport
    /\ UNCHANGED <<appVars, envVars, formVars, dataVars, dateFrom, dateTo, paymentMethod, nav>>

onDateFromChange(value) ==
    /\ ~isLoading
    /\ dateFrom' = value
    /\ report' = NoReport
    /\ nav' = NoNav
    /\ UNCHANGED <<appVars, envVars, formVars, dataVars, searchTerm, dateTo, paymentMethod>>

onDateToChange(value) ==
    /\ ~isLoading
    /\ dateTo' = value
    /\ report' = NoReport
    /\ nav' = NoNav
    /\ UNCHANGED <<appVars, envVars, formVars, dataVars, searchTerm, dateFrom, paymentMethod>>

onPaymentMethodChange(value) ==
    /\ ~isLoading
    /\ paymentMethod' = value
    /\ report' = NoReport
    /\ UNCHANGED <<appVars, envVars, formVars, dataVars, searchTerm, dateFrom, dateTo, nav>>

setToday ==
    \E n \in NowInstants :
        /\ ~isLoading
        /\ dateFrom' = getCurrentDateInET(n)
        /\ dateTo' = getCurrentDateInET(n)
        /\ report' = NoReport
        /\ nav' = NoNav
    /\ UNCHANGED <<appVars, envVars, formVars, dataVars, searchTerm, paymentMethod>>

clearDates ==
    /\ ~isLoading
    /\ dateFrom' = <<>>
    /\ dateTo' = <<>>
    /\ report' = NoReport
    /\ nav' = NoNav
    /\ UNCHANGED <<appVars, envVars, formVars, dataVars, searchTerm, paymentMethod>>

\* handleGenerateCurrentReport when the fetch succeeds: the request carries
\* the dates (today's date for an empty one) and the method; the answer is
\* downloaded.
GenerateReportOk ==
    \E n \in NowInstants :
        LET fromDate == IF dateFrom # <<>> THEN dateFrom ELSE getCurrentDateInET(n)
            toDate   == IF dateTo # <<>> THEN dateTo ELSE getCurrentDateInET(n)
        IN  /\ ~isLoading
            /\ report' = ReportResponse(store, fromDate, toDate, paymentMethod)
            /\ UNCHANGED <<appVars, envVars, formVars, dataVars, criteriaVars, nav>>


(***************************************************************************)
(* SearchFilter: previous day / next day.                                  *)
(***************************************************************************)
MaxNavDays == 2

NavPicks == { <<2025, 1, 1>>,     \* year boundary
              <<2024, 3, 1>>,     \* month boundary after Feb 29
              <<2025, 3, 9>>,     \* US daylight time starts
              <<2025, 11, 2>>,    \* US daylight time ends
              <<2025, 10, 19>> }

DayNumber(dateKey) == DaysFromCivil(dateKey[1], dateKey[2], dateKey[3])

NearPick(dateKey) ==
    \E p \in NavPicks :
        /\ DayNumber(dateKey) - DayNumber(p) <= MaxNavDays
        /\ DayNumber(p) - DayNumber(dateKey) <= MaxNavDays

\* new Date(dateFrom + 'T12:00:00'); setDate(getDate() + delta);
\* toISOString().split('T')[0]: local noon of the date, moved by delta local
\* calendar days, printed as the UTC date of that instant.
ShiftedDay(dateKey, delta) ==
    LET date    == ZonedInstant(viewerTZ, AtTime(dateKey, 12, 0))
        local   == ZonedWall(viewerTZ, date)
        moved   == CivilFromDays(DayNumber(DateKeyOf(local)) + delta)
        newDate == ZonedInstant(viewerTZ, AtTime(moved, local.hh, local.mi))
    IN  DateKeyOf(WallOf(newDate))

goToPreviousDayFromOnly ==
    /\ ~isLoading
    /\ dateFrom # <<>>
    /\ NearPick(dateFrom)
    /\ dateFrom' = ShiftedDay(dateFrom, -1)
    /\ report' = NoReport
    /\ nav' = [origin |-> dateFrom, trail |-> "prev"]
    /\ UNCHANGED <<appVars, envVars, formVars, dataVars, searchTerm,
                   paymentMethod, dateTo>>

goToPreviousDay ==
    /\ ~isLoading
    /\ dateFrom # <<>>
    /\ NearPick(dateFrom)
    /\ dateFrom' = ShiftedDay(dateFrom, -1)
    /\ dateTo' = ShiftedDay(dateFrom, -1)
    /\ report' = NoReport
    /\ nav' = [origin |-> dateFrom, trail |-> "prev"]
    /\ UNCHANGED <<appVars, envVars, formVars, dataVars, searchTerm, paymentMethod>>

goToNextDay ==
    /\ ~isLoading
    /\ dateFrom # <<>>
    /\ NearPick(dateFrom)
    /\ dateFrom' = ShiftedDay(dateFrom, 1)
    /\ dateTo' = ShiftedDay(dateFrom, 1)
    /\ report' = NoReport
    /\ nav' = IF nav.trail = "prev"
              THEN [nav EXCEPT !.trail = "prev-next"]
              ELSE NoNav
    /\ UNCHANGED <<appVars, envVars, formVars, dataVars, searchTerm, paymentMethod>>

NavInit ==
    /\ viewerTZ \in Zones
    /\ Deployed
    /\ runs = {}
    /\ Attended
    /\ store = {}
    /\ payments = <<>>
    /\ searchTerm = <<>>
    /\ \E n \in NowInstants :
          /\ dateFrom = getCurrentDateInET(n)
          /\ dateTo = getCurrentDateInET(n)
    /\ paymentMethod = ""
    /\ report = NoReport
    /\ nav = NoNav
    /\ isLoading = FALSE /\ isFormOpen = FALSE /\ editingPayment = NoRow
    /\ isSubmitting = [add |-> FALSE, edit |-> FALSE]
    /\ tasks = <<>> /\ nextId = 0 /\ alerts = 0 /\ downloads = 0
    /\ formData = NoValue /\ submitted = NoValue
    /\ formTouched = FALSE /\ formPc = "closed"

NavNext ==
    \/ \E v \in NavPicks \cup {<<>>} : onDateFromChange(v)
    \/ \E v \in NavPicks \cup {<<>>} : onDateToChange(v)
    \/ setToday
    \/ clearDates
    \/ goToPreviousDay
    \/ goToNextDay

NavSpec == NavInit /\ [][NavNext]_vars

\* C5: day navigation is invertible: goToNextDay after goToPreviousDay
\* from date key d shows d again, across month and year boundaries and DST
\* transition days, in every viewer time zone.
C5_NextAfterPrevious ==
    nav.trail = "prev-next" => dateFrom = nav.origin

FilterNext ==
    \/ \E v \in SearchTerms : onSearchChange(v)
    \/ \E v \in DatePicks \cup {<<>>} : onDateFromChange(v)
    \/ \E v \in DatePicks \cup {<<>>} : onDateToChange(v)
    \/ \E v \in Range(Methods) \cup {""} : onPaymentMethodChange(v)
    \/ setToday
    \/ clearDates
    \/ GenerateReportOk

FilterSpec == FilterInit /\ [][FilterNext]_vars

\* The report in hand was requested with the criteria the dashboard shows.
ReportOfView ==
    /\ report.status = 200
    /\ report.dateFrom = dateFrom
    /\ report.dateTo = dateTo
    /\ report.paymentMethod = paymentMethod

\* C1: with both dates present, the same method and an empty search text,
\* the report keeps the set of records the dashboard shows and computes the
\* same summary, also for records whose UTC and Eastern dates differ.
C1_ReportEqualsDashboard ==
    (ReportOfView /\ searchTerm = <<>>)
        => /\ Range(report.payments) = Range(filteredPayments)
           /\ report.summary = summary(filteredPayments)

\* The date key of the day before / after a date key.
DayBefore(dateKey) == CivilFromDays(DaysFromCivil(dateKey[1], dateKey[2], dateKey[3]) - 1)

\* C2: a loaded record whose Eastern date is the day before its UTC date D
\* is shown for dateFrom = dateTo = D-1 and not shown for dateFrom = dateTo = D,
\* by the dashboard filter and by the report filter.
C2_DateBoundary ==
    \A p \in Range(payments) :
        LET D == DateKeyOf(WallOf(p.timestamp))
            E == getETDateString(p.timestamp)
        IN  (E = DayBefore(D) /\ searchTerm = <<>> /\ paymentMethod = "")
            => /\ (dateFrom = E /\ dateTo = E)
                    => /\ p \in Range(filteredPayments)
                       /\ ReportOfView => p \in Range(report.payments)
               /\ (dateFrom = D /\ dateTo = D)
                    => /\ p \notin Range(filteredPayments)
                       /\ ReportOfView => p \notin Range(report.payments)

MaxTasks == 3

\* The datetime-local input left empty.
NoWall == [y |-> 0, m |-> 0, d |-> 0, hh |-> 0, mi |-> 0]

\* What the user can have typed into the form when submitting.
FormInputs ==
    { [client_name |-> <<"b","o","b">>, payment_method |-> "Check",
       amount_paid |-> -2000, timestamp |-> WallOf(UTC(2025, 10, 19, 21, 0)),
       service_type |-> ""],
      [client_name |-> <<"A","n","n">>, payment_method |-> "Cash",
       amount_paid |-> 0, timestamp |-> WallOf(UTC(2025, 10, 19, 10, 0)),
       service_type |-> ""],
      [client_name |-> <<>>, payment_method |-> "Zelle",
       amount_paid |-> 2500, timestamp |-> WallOf(UTC(2025, 10, 19, 10, 0)),
       service_type |-> ""],
      [client_name |-> <<"b","o","b">>, payment_method |-> "Check",
       amount_paid |-> 5000, timestamp |-> NoWall,
       service_type |-> ""] }

\* The text of the amount input is <<>> when empty, else <<cents>>.
\* onChange: parseFloat(e.target.value) || 0.
AmountState(text) == IF text = <<>> \/ text[1] = 0 THEN 0 ELSE text[1]

\* value={formData.amount_paid || ''}: what the input shows for the state.
AmountShown(amount) == IF amount = 0 THEN <<>> ELSE <<amount>>

FormValidNoName(fd) ==
    /\ fd.payment_method # ""
    /\ AmountShown(fd.amount_paid) # <<>>
    /\ fd.timestamp.y # 0

\* The required inputs: each must show a value.
FormValid(fd) ==
    /\ fd.client_name # <<>>
    /\ fd.payment_method # ""
    /\ AmountShown(fd.amount_paid) # <<>>
    /\ fd.timestamp.y # 0

\* The row handleAddPayment / handleUpdatePayment sends for form data fd,
\* after handleSubmit converted the timestamp.
RowOf(fd, id) ==
    [id |-> id, client_name |-> fd.client_name,
     payment_method |-> fd.payment_method, amount_paid |-> fd.amount_paid,
     timestamp |-> convertLocalDateTimeToUTC(fd.timestamp),
     service_type |-> fd.service_type]

NewTask(kind, pc, row, target) ==
    [kind |-> kind, pc |-> pc, row |-> row, target |-> target,
     params |-> [dateFrom |-> <<>>, dateTo |-> <<>>, paymentMethod |-> ""],
     snapshot |-> <<>>, wrote |-> "", loads |-> 0, loadDone |-> FALSE,
     closed |-> FALSE, failed |-> FALSE, calls |-> 1, live |-> TRUE]

\* loadPayments(): one more list() call of the task.
CallLoad(task) ==
    [task EXCEPT !.pc = "listReq", !.loads = @ + 1, !.calls = @ + 1]

FormOfKind(kind) == IF kind = "add" THEN "add" ELSE "edit"

\* The form instance of the given kind unmounts: its handleSubmit calls
\* can no longer set its state.
Unmounted(ts, form) ==
    [j \in DOMAIN ts |->
        IF ts[j].kind \in {"add", "update"} /\ FormOfKind(ts[j].kind) = form
        THEN [ts[j] EXCEPT !.live = FALSE] ELSE ts[j]]

\* Rows in the table when the dashboard is opened.
InitialRows == 2

Init ==
    /\ viewerTZ \in {TIMEZONE, "UTC"}
    /\ Deployed
    /\ runs = {}
    /\ Attended
    /\ store = { SampleRecord(i) : i \in 1..InitialRows }
    /\ nextId = InitialRows + 1
    /\ payments = <<>>
    /\ isLoading = TRUE
    /\ isFormOpen = FALSE
    /\ editingPayment = NoRow
    /\ isSubmitting = [add |-> FALSE, edit |-> FALSE]
    /\ searchTerm = <<>>
    /\ \E n \in NowInstants :
          /\ dateFrom = getCurrentDateInET(n)
          /\ dateTo = getCurrentDateInET(n)
    /\ paymentMethod = ""
    /\ tasks = << CallLoad([NewTask("mount", "listReq", NoRow, 0) EXCEPT !.calls = 0]) >>
    /\ alerts = 0
    /\ downloads = 0
    /\ report = NoReport
    /\ nav = NoNav
    /\ formData = NoValue /\ submitted = NoValue
    /\ formTouched = FALSE /\ formPc = "closed"

frame == <<envVars, formVars, criteriaVars, nav>>

\* "Add Payment" button.
OpenAddForm ==
    /\ ~isLoading /\ ~isFormOpen
    /\ isFormOpen' = TRUE
    /\ UNCHANGED <<frame, dataVars, report, isLoading, editingPayment,
                   isSubmitting, tasks, nextId, alerts, downloads>>

\* onCancel of the add form.
CancelAddForm ==
    /\ ~isLoading /\ isFormOpen
    /\ isFormOpen' = FALSE
    /\ isSubmitting' = [isSubmitting EXCEPT !.add = FALSE]
    /\ tasks' = Unmounted(tasks, "add")
    /\ UNCHANGED <<frame, dataVars, report, isLoading, editingPayment,
                   nextId, alerts, downloads>>

\* Edit button of a table row.
onEdit(payment) ==
    /\ ~isLoading
    /\ payment \in Range(filteredPayments)
    /\ editingPayment # payment
    /\ editingPayment' = payment
    /\ UNCHANGED <<frame, dataVars, report, isLoading, isFormOpen,
                   isSubmitting, tasks, nextId, alerts, downloads>>

\* onCancel of the edit form.
CancelEditForm ==
    /\ ~isLoading /\ editingPayment # NoRow
    /\ editingPayment' = NoRow
    /\ isSubmitting' = [isSubmitting EXCEPT !.edit = FALSE]
    /\ tasks' = Unmounted(tasks, "edit")
    /\ UNCHANGED <<frame, dataVars, report, isLoading, isFormOpen,
                   nextId, alerts, downloads>>

SubmitAddWhileSubmitting(fd) ==
    /\ ~isLoading /\ isFormOpen
    /\ FormValid(fd)
    /\ Len(tasks) < MaxTasks
    /\ isSubmitting' = [isSubmitting EXCEPT !.add = TRUE]
    /\ tasks' = Append(tasks, NewTask("add", "write", RowOf(fd, 0), 0))
    /\ UNCHANGED <<frame, dataVars, report, isLoading, isFormOpen,
                   editingPayment, nextId, alerts, downloads>>

\* Submit of the add form: handleSubmit, then handleAddPayment up to its
\* insert call.
SubmitAdd(fd) ==
    /\ ~isLoading /\ isFormOpen /\ ~isSubmitting.add
    /\ FormValid(fd)
    /\ Len(tasks) < MaxTasks
    /\ isSubmitting' = [isSubmitting EXCEPT !.add = TRUE]
    /\ tasks' = Append(tasks, NewTask("add", "write", RowOf(fd, 0), 0))
    /\ UNCHANGED <<frame, dataVars, report, isLoading, isFormOpen,
                   editingPayment, nextId, alerts, downloads>>

\* Submit of the edit form: handleSubmit, then handleUpdatePayment up to its
\* update call on editingPayment.id.
SubmitEdit(fd) ==
    /\ ~isLoading /\ editingPayment # NoRow /\ ~isSubmitting.edit
    /\ FormValid(fd)
    /\ Len(tasks) < MaxTasks
    /\ isSubmitting' = [isSubmitting EXCEPT !.edit = TRUE]
    /\ tasks' = Append(tasks, NewTask("update", "write",
                                      RowOf(fd, editingPayment.id),
                                      editingPayment.id))
    /\ UNCHANGED <<frame, dataVars, report, isLoading, isFormOpen,
                   editingPayment, nextId, alerts, downloads>>

\* What a click on a row's Delete button leaves alone besides the tasks.
deleteFrame == <<viewerTZ, serverVars, runs, blocked, authVars, formVars,
                 criteriaVars, nav, dataVars, report, isLoading, isFormOpen,
                 editingPayment, isSubmitting, nextId, alerts, downloads>>

DeleteWithoutConfirm(payment) ==
    /\ ~isLoading
    /\ payment \in Range(filteredPayments)
    /\ Len(tasks) < MaxTasks
    /\ \E yes \in BOOLEAN : prompt' = [id |-> payment.id, confirmed |-> yes]
    /\ tasks' = Append(tasks, NewTask("delete", "write", NoRow, payment.id))
    /\ UNCHANGED deleteFrame

\* Delete button of a table row, confirm() answered yes:
\* handleDeletePayment up to its delete call.
ConfirmDelete(payment) ==
    /\ ~isLoading
    /\ payment \in Range(filteredPayments)
    /\ Len(tasks) < MaxTasks
    /\ prompt' = [id |-> payment.id, confirmed |-> TRUE]
    /\ tasks' = Append(tasks, NewTask("delete", "write", NoRow, payment.id))
    /\ UNCHANGED deleteFrame

\* Delete button of a table row, confirm() answered no: onDelete is not
\* called.
DeclineDelete(payment) ==
    /\ ~isLoading
    /\ payment \in Range(filteredPayments)
    /\ prompt' = [id |-> payment.id, confirmed |-> FALSE]
    /\ UNCHANGED <<deleteFrame, tasks>>

\* "Generate Report" button: handleGenerateCurrentReport up to its fetch.
RequestReport ==
    \E n \in NowInstants :
        /\ ~isLoading
        /\ Len(tasks) < MaxTasks
        /\ tasks' = Append(tasks,
              [NewTask("report", "fetch", NoRow, 0) EXCEPT !.params =
                  [dateFrom |-> IF dateFrom # <<>> THEN dateFrom
                                ELSE getCurrentDateInET(n),
                   dateTo |-> IF dateTo # <<>> THEN dateTo
                              ELSE getCurrentDateInET(n),
                   paymentMethod |-> paymentMethod]])
        /\ UNCHANGED <<frame, dataVars, report, isLoading, isFormOpen,
                       editingPayment, isSubmitting, nextId, alerts, downloads>>

(***************************************************************************)
(* Completion of the awaited calls.                                        *)
(***************************************************************************)
\* The table after the task's insert, update or delete.
Written(task) ==
    CASE task.kind = "add" -> store \cup {[task.row EXCEPT !.id = nextId]}
      [] task.kind = "update" ->
            { IF r.id = task.target THEN task.row ELSE r : r \in store }
      [] task.kind = "delete" -> { r \in store : r.id # task.target }

\* The handler's statements after `await loadPayments()`, and the finally
\* of the form's handleSubmit.
AfterLoad(i, ts) ==
    LET kind == ts[i].kind
        done == [ts EXCEPT ![i] = [@ EXCEPT !.pc = "done", !.loadDone = TRUE,
                                            !.snapshot = <<>>, !.row = NoRow,
                                            !.closed = kind \in {"add", "update"}]]
    IN  /\ isFormOpen' = IF kind = "add" THEN FALSE ELSE isFormOpen
        /\ editingPayment' = IF kind = "update" THEN NoRow ELSE editingPayment
        /\ isSubmitting' =
              IF kind \in {"add", "update"}
              THEN [isSubmitting EXCEPT ![FormOfKind(kind)] = FALSE]
              ELSE isSubmitting
        /\ tasks' = IF kind \in {"add", "update"}
                    THEN Unmounted(done, FormOfKind(kind)) ELSE done

WriteOkNoReload(i) ==
    /\ tasks[i].pc = "write"
    /\ store' = Written(tasks[i])
    /\ nextId' = IF tasks[i].kind = "add" THEN nextId + 1 ELSE nextId
    /\ AfterLoad(i, [tasks EXCEPT ![i] = [@ EXCEPT !.wrote = "ok"]])
    /\ UNCHANGED <<frame, payments, report, isLoading, alerts, downloads>>

\* The insert, update or delete returns without error; the handler calls
\* loadPayments().
WriteOk(i) ==
    /\ tasks[i].pc = "write"
    /\ store' = Written(tasks[i])
    /\ nextId' = IF tasks[i].kind = "add" THEN nextId + 1 ELSE nextId
    /\ tasks' = [tasks EXCEPT ![i] = CallLoad([@ EXCEPT !.wrote = "ok"])]
    /\ UNCHANGED <<frame, payments, report, isLoading, isFormOpen,
                   editingPayment, isSubmitting, alerts, downloads>>

\* The insert, update or delete returns an error: catch, alert; then the
\* finally of handleSubmit.
WriteFail(i) ==
    /\ tasks[i].pc = "write"
    /\ alerts' = alerts + 1
    /\ tasks' = [tasks EXCEPT ![i] = [@ EXCEPT !.pc = "done", !.wrote = "failed",
                                               !.failed = TRUE, !.row = NoRow]]
    /\ isSubmitting' =
          IF tasks[i].kind \in {"add", "update"} /\ tasks[i].live
          THEN [isSubmitting EXCEPT ![FormOfKind(tasks[i].kind)] = FALSE]
          ELSE isSubmitting
    /\ UNCHANGED <<frame, dataVars, report, isLoading, isFormOpen,
                   editingPayment, nextId, downloads>>

\* The store runs the list() query of the task.
ListServe(i) ==
    /\ tasks[i].pc = "listReq"
    /\ tasks' = [tasks EXCEPT ![i] = [@ EXCEPT !.pc = "listResp",
                                               !.snapshot = ListPayments(store)]]
    /\ UNCHANGED <<frame, dataVars, report, isLoading, isFormOpen,
                   editingPayment, isSubmitting, nextId, alerts, downloads>>

ListFailClearsList(i) ==
    /\ tasks[i].pc \in {"listReq", "listResp"}
    /\ payments' = <<>>
    /\ alerts' = alerts + 1
    /\ isLoading' = FALSE
    /\ AfterLoad(i, [tasks EXCEPT ![i] = [@ EXCEPT !.failed = TRUE]])
    /\ UNCHANGED <<frame, store, report, nextId, downloads>>

\* The list() answer arrives: setPayments(data), setIsLoading(false), and
\* the handler goes on.
ListOk(i) ==
    /\ tasks[i].pc = "listResp"
    /\ payments' = tasks[i].snapshot
    /\ isLoading' = FALSE
    /\ AfterLoad(i, tasks)
    /\ UNCHANGED <<frame, store, report, nextId, alerts, downloads>>

\* The list() call fails: loadPayments catches, alerts, setIsLoading(false),
\* and returns normally, so the handler goes on.
ListFail(i) ==
    /\ tasks[i].pc \in {"listReq", "listResp"}
    /\ alerts' = alerts + 1
    /\ isLoading' = FALSE
    /\ AfterLoad(i, [tasks EXCEPT ![i] = [@ EXCEPT !.failed = TRUE]])
    /\ UNCHANGED <<frame, dataVars, report, nextId, downloads>>

\* The report fetch answers 200: the document is downloaded.
ReportOk(i) ==
    /\ tasks[i].pc = "fetch"
    /\ report' = ReportResponse(store, tasks[i].params.dateFrom,
                                tasks[i].params.dateTo,
                                tasks[i].params.paymentMethod)
    /\ downloads' = downloads + 1
    /\ tasks' = [tasks EXCEPT ![i] = [@ EXCEPT !.pc = "done"]]
    /\ UNCHANGED <<frame, dataVars, isLoading, isFormOpen, editingPayment,
                   isSubmitting, nextId, alerts>>

\* The report fetch rejects or answers with a status that is not ok.
ReportFail(i) ==
    /\ tasks[i].pc = "fetch"
    /\ alerts' = alerts + 1
    /\ tasks' = [tasks EXCEPT ![i] = [@ EXCEPT !.pc = "done", !.failed = TRUE]]
    /\ UNCHANGED <<frame, dataVars, report, isLoading, isFormOpen,
                   editingPayment, isSubmitting, nextId, downloads>>

Next ==
    \/ OpenAddForm
    \/ CancelAddForm
    \/ \E p \in Range(payments) : onEdit(p)
    \/ CancelEditForm
    \/ \E fd \in FormInputs : SubmitAdd(fd)
    \/ \E fd \in FormInputs : SubmitEdit(fd)
    \/ \E p \in Range(payments) : ConfirmDelete(p)
    \/ RequestReport
    \/ clearDates
    \/ \E i \in DOMAIN tasks : WriteOk(i)
    \/ \E i \in DOMAIN tasks : WriteFail(i)
    \/ \E i \in DOMAIN tasks : ListServe(i)
    \/ \E i \in DOMAIN tasks : ListOk(i)
    \/ \E i \in DOMAIN tasks : ListFail(i)
    \/ \E i \in DOMAIN tasks : ReportOk(i)
    \/ \E i \in DOMAIN tasks : ReportFail(i)

Spec == Init /\ [][Next]_vars

WriteKinds == {"add", "update", "delete"}

\* C7: no partial success. The step that ends an add, update or delete
\* handler either follows a successful write and replaces the local list by
\* the reload read after that write, or follows a failed write and leaves
\* the store and the local list as they were; whatever the write call and
\* the list() call did.
C7_NoPartialSuccess ==
    [][\A i \in DOMAIN tasks :
          (tasks[i].kind \in WriteKinds /\ tasks[i].pc # "done"
           /\ tasks'[i].pc = "done")
          => \/ /\ tasks'[i].wrote = "ok"
                /\ tasks[i].pc = "listResp"
                /\ payments' = tasks[i].snapshot
             \/ /\ tasks'[i].wrote = "failed"
                /\ store' = store
                /\ payments' = payments]_vars

\* C8: with overlapping handlers, once every call has completed and none
\* has failed, the local list is the store's contents in store order.
C8_SettledListEqualsStore ==
    (\A i \in DOMAIN tasks : tasks[i].pc = "done" /\ ~tasks[i].failed)
        => payments = ListPayments(store)

\* C9: in the add, update and delete handlers a successful write is followed
\* by exactly one loadPayments() call, and the handler closes the form (or
\* clears the editing state) only after that call has returned; a failed
\* write is followed by no loadPayments() call and the failing step leaves
\* the form as it is.
C9_ReloadAfterWrite ==
    [][/\ \A i \in DOMAIN tasks' :
            LET t == tasks'[i]
            IN  t.kind \in WriteKinds
                => /\ t.wrote = "ok" => t.loads = 1
                   /\ t.wrote # "ok" => t.loads = 0
                   /\ t.closed => (t.wrote = "ok" /\ t.loadDone)
                   /\ t.wrote = "failed" => (t.pc = "done" /\ ~t.closed)
       /\ \A i \in DOMAIN tasks :
            (tasks[i].wrote = "" /\ tasks'[i].wrote = "failed")
            => /\ isFormOpen' = isFormOpen
               /\ editingPayment' = editingPayment]_vars

C9_Witness ==
    \E i, j \in DOMAIN tasks :
        /\ tasks[i].kind = "add" /\ tasks[i].wrote = "ok"
        /\ tasks[i].loads = 1 /\ tasks[i].closed /\ ~isFormOpen
        /\ tasks[j].kind = "delete" /\ tasks[j].wrote = "failed"

\* C10: the step in which a list, insert, update, delete or report call
\* fails shows one alert, leaves the local list and the filter criteria
\* unchanged, starts no download, and issues no further call (no retry).
C10_FailureLeavesState ==
    [][\A i \in DOMAIN tasks :
          (~tasks[i].failed /\ tasks'[i].failed)
          => /\ alerts' = alerts + 1
             /\ payments' = payments
             /\ criteriaVars' = criteriaVars
             /\ downloads' = downloads
             /\ tasks'[i].pc = "done"
             /\ Len(tasks') = Len(tasks)
             /\ \A j \in DOMAIN tasks : tasks'[j].calls = tasks[j].calls]_vars

C10_Witness ==
    /\ payments # <<>>
    /\ \E i, j \in DOMAIN tasks :
          /\ tasks[i].kind = "report" /\ tasks[i].failed
          /\ tasks[j].kind \in WriteKinds /\ tasks[j].wrote = "ok"
          /\ tasks[j].failed
    /\ alerts = 2
    /\ downloads = 0

(***************************************************************************)
(* The server side: migrations, the REST API under row level security, and *)
(* the generate-payment-report endpoint behind the functions gateway.      *)
(***************************************************************************)
\* What a caller can present as bearer credential: nothing, the project's
\* public anon key (shipped in the bundle), or the token of a signed-in user.
Credentials == {"none", "anon key", "user token"}

RoleOf(credential) ==
    CASE credential = "anon key"   -> "anon"
      [] credential = "user token" -> "authenticated"
      [] OTHER                     -> "none"

\* The parameter is not in the URL (searchParams.get gives null).
MissingParam == <<0>>

Falsy(param) == param = MissingParam \/ param = <<>>

ServerRows == { SampleRecord(1), SampleRecord(2) }

FullyMigrated(names) == names = MigrationNames

Answer(path, credential, status) ==
    [path |-> path, credential |-> credential, status |-> status,
     migrated |-> FullyMigrated(Range(applied)), body |-> "", rows |-> {}, queried |-> FALSE,
     request |-> [dateFrom |-> <<>>, dateTo |-> <<>>, paymentMethod |-> ""],
     outcome |-> "", error |-> "", dateFrom |-> <<>>, dateTo |-> <<>>,
     document |-> NoReport, command |-> "", row |-> NoRow, touched |-> FALSE]

RowAcceptedPositiveOnly(sc, row) ==
    /\ sc.methodChecked => row.payment_method \in sc.methodCheck
    /\ row.amount_paid > 0

\* A row passes the table's CHECK constraints.
RowAccepted(sc, row) ==
    /\ sc.methodChecked => row.payment_method \in sc.methodCheck
    /\ sc.amountPositive => row.amount_paid > 0

\* Row level security: the role may run the command on payments.
Permitted(sc, role, cmd) ==
    ~sc.rls \/ [role |-> role, cmd |-> cmd] \in sc.policies

ServerInit ==
    /\ viewerTZ = TIMEZONE
    /\ schema = NoSchema
    /\ applied = <<>>
    /\ verifyJWT \in BOOLEAN
    /\ answer = NoAnswer
    /\ runs = {}
    /\ Attended
    /\ store = {}
    /\ payments = <<>>
    /\ formData = NoValue /\ submitted = NoValue
    /\ formTouched = FALSE /\ formPc = "closed"
    /\ searchTerm = <<>> /\ dateFrom = <<>> /\ dateTo = <<>>
    /\ paymentMethod = ""
    /\ report = NoReport
    /\ nav = NoNav
    /\ isLoading = TRUE /\ isFormOpen = FALSE /\ editingPayment = NoRow
    /\ isSubmitting = [add |-> FALSE, edit |-> FALSE]
    /\ tasks = <<>> /\ nextId = 1 /\ alerts = 0 /\ downloads = 0

clientVars == <<viewerTZ, runs, uiVars, authVars, formVars, payments, criteriaVars, report, nav, appVars>>

\* supabase db push: the next migration runs.
ApplyMigration(name) ==
    /\ name \notin Range(applied)
    /\ IF \E i \in DOMAIN TimestampOrder : TimestampOrder[i] = name
       THEN \A i, j \in DOMAIN TimestampOrder :
               (TimestampOrder[j] = name /\ i < j)
               => TimestampOrder[i] \in Range(applied)
       ELSE "create_payments_table" \in Range(applied)
    /\ applied' = Append(applied, name)
    /\ schema' = Migrate(name, schema)
    /\ UNCHANGED <<clientVars, store, verifyJWT, answer>>

\* select * from payments through the REST API.
RestSelect(credential) ==
    /\ schema.table
    /\ credential # "none"
    /\ answer' = [Answer("rest", credential, 200) EXCEPT
                     !.body = "json",
                     !.queried = TRUE,
                     !.rows = IF Permitted(schema, RoleOf(credential), "SELECT")
                              THEN store ELSE {}]
    /\ UNCHANGED <<clientVars, store, schema, applied, verifyJWT>>

\* Rows a client can try to insert besides ServerRows: a refund paid back
\* through Booker CC, an amount of zero, and a method the table never had.
ConstraintRows ==
    { [SampleRecord(3) EXCEPT !.payment_method = "Booker CC"],
      [SampleRecord(4) EXCEPT !.payment_method = "Check", !.amount_paid = 0],
      [SampleRecord(5) EXCEPT !.payment_method = "Venmo"] }

\* insert into payments through the REST API.
RestInsert(credential, row) ==
    /\ schema.table
    /\ credential # "none"
    /\ row \notin store
    /\ LET ok == Permitted(schema, RoleOf(credential), "INSERT")
                 /\ RowAccepted(schema, row)
       IN  /\ store' = IF ok THEN store \cup {row} ELSE store
           /\ answer' = [Answer("rest", credential, IF ok THEN 201 ELSE 403)
                            EXCEPT !.queried = TRUE, !.command = "INSERT",
                                   !.row = row]
    /\ UNCHANGED <<clientVars, schema, applied, verifyJWT>>

\* update payments set payment_method = ... where id = ... through the REST
\* API; the BEFORE UPDATE trigger stamps updated_at on the row it lets pass.
RestUpdate(credential, row, method) ==
    /\ schema.table
    /\ credential # "none"
    /\ row \in store
    /\ LET new == [row EXCEPT !.payment_method = method]
           seen == Permitted(schema, RoleOf(credential), "UPDATE")
           ok == seen /\ RowAccepted(schema, new)
       IN  /\ store' = IF ok THEN (store \ {row}) \cup {new} ELSE store
           /\ answer' = [Answer("rest", credential,
                                IF ok \/ ~seen THEN 204 ELSE 403)
                            EXCEPT !.queried = TRUE, !.command = "UPDATE",
                                   !.row = IF ok THEN new ELSE NoRow,
                                   !.touched = ok /\ schema.touchTrigger]
    /\ UNCHANGED <<clientVars, schema, applied, verifyJWT>>

\* delete from payments where id = ... through the REST API.
RestDelete(credential, row) ==
    /\ schema.table
    /\ credential # "none"
    /\ row \in store
    /\ store' = IF Permitted(schema, RoleOf(credential), "DELETE")
                THEN store \ {row} ELSE store
    /\ answer' = [Answer("rest", credential, 204) EXCEPT !.queried = TRUE]
    /\ UNCHANGED <<clientVars, schema, applied, verifyJWT>>

ReportRequests ==
    { [dateFrom |-> MissingParam, dateTo |-> <<2025, 10, 20>>, paymentMethod |-> ""],
      [dateFrom |-> <<>>, dateTo |-> <<2025, 10, 20>>, paymentMethod |-> ""],
      [dateFrom |-> <<2025, 10, 19>>, dateTo |-> MissingParam, paymentMethod |-> ""],
      [dateFrom |-> <<2025, 10, 19>>, dateTo |-> <<2025, 10, 20>>, paymentMethod |-> ""],
      [dateFrom |-> <<2025, 10, 19>>, dateTo |-> <<2025, 10, 20>>,
       paymentMethod |-> "Zelle"] }

QueryOutcomes == {"ok", "query failed", "rendering failed"}

HandlerQueriesFirst(credential, request, outcome) ==
    IF outcome = "query failed"
    THEN [Answer("report", credential, 500) EXCEPT
             !.body = "json", !.request = request, !.outcome = outcome,
             !.queried = TRUE, !.error = outcome,
             !.dateFrom = request.dateFrom, !.dateTo = request.dateTo]
    ELSE IF Falsy(request.dateFrom) \/ Falsy(request.dateTo)
    THEN [Answer("report", credential, 400) EXCEPT
             !.body = "json", !.request = request, !.outcome = outcome,
             !.queried = TRUE,
             !.error = "dateFrom and dateTo parameters are required"]
    ELSE [Answer("report", credential, 200) EXCEPT
             !.body = "html", !.request = request, !.outcome = outcome,
             !.queried = TRUE]

\* The Deno.serve handler for a GET: the parameter check, the query with the
\* service-role client (which row level security does not bind), the filter
\* and the document; the catch turns every throw into a 500.
Handler(credential, request, outcome) ==
    IF Falsy(request.dateFrom) \/ Falsy(request.dateTo)
    THEN [Answer("report", credential, 400) EXCEPT
             !.body = "json", !.request = request, !.outcome = outcome,
             !.error = "dateFrom and dateTo parameters are required"]
    ELSE IF outcome # "ok"
    THEN [Answer("report", credential, 500) EXCEPT
             !.body = "json", !.request = request, !.outcome = outcome,
             !.queried = TRUE, !.error = outcome,
             !.dateFrom = request.dateFrom, !.dateTo = request.dateTo]
    ELSE LET document == ReportResponse(store, request.dateFrom,
                                        request.dateTo, request.paymentMethod)
         IN  [Answer("report", credential, 200) EXCEPT
                 !.body = "html", !.request = request, !.outcome = outcome,
                 !.queried = TRUE, !.document = document,
                 !.rows = Range(document.payments)]

\* A request to /functions/v1/generate-payment-report.  The gateway, when it
\* verifies, turns away a request that carries no project JWT; the anon key
\* and a user's token are both project JWTs.  The handler never reads the
\* Authorization header.
ReportCall(credential, request, outcome) ==
    /\ outcome = "ok" => schema.table
    /\ answer' = IF verifyJWT /\ credential = "none"
                 THEN Answer("gateway", credential, 401)
                 ELSE Handler(credential, request, outcome)
    /\ UNCHANGED <<clientVars, store, schema, applied, verifyJWT>>

ServerNext ==
    \/ \E name \in MigrationNames : ApplyMigration(name)
    \/ \E c \in Credentials : RestSelect(c)
    \/ \E c \in Credentials, row \in ServerRows \cup ConstraintRows :
          RestInsert(c, row)
    \/ \E c \in Credentials, row \in store :
          \E method \in {row.payment_method, "Venmo"} :
              RestUpdate(c, row, method)
    \/ \E c \in Credentials, row \in ServerRows : RestDelete(c, row)
    \/ \E c \in Credentials, request \in ReportRequests, outcome \in QueryOutcomes :
          ReportCall(c, request, outcome)

ServerSpec == ServerInit /\ [][ServerNext]_vars

\* C11: once all migrations are applied, no policy grants the anon role
\* access to payments, and no answer to a caller who is not signed in (no
\* credential, or only the public anon key) carries payment rows.
C11_NoAnonymousData ==
    /\ FullyMigrated(Range(applied))
          => \A pol \in schema.policies : pol.role # "anon"
    /\ (answer.status # 0 /\ answer.migrated
        /\ answer.credential # "user token")
          => answer.rows = {}

C13_ViewerZoneIndependent ==
    \A tz \in Zones :
        SelectSeq(payments, LAMBDA p : DashboardKeepsIn(tz, p)) = filteredPayments

\* C14: the report downloaded from a dashboard view was requested with the
\* view's criteria and holds exactly the visible records with the same
\* totals, whatever the view: cleared dates, one-sided range, search text.
C14_ReportMatchesView ==
    report.status = 200
        => /\ report.dateFrom = dateFrom
           /\ report.dateTo = dateTo
           /\ report.paymentMethod = paymentMethod
           /\ Range(report.payments) = Range(filteredPayments)
           /\ Len(report.payments) = Len(filteredPayments)
           /\ report.summary = summary(filteredPayments)

\* The record's display date: its calendar date in US Eastern time.
DisplayDate(payment) == DateKeyOf(ZonedWall(TIMEZONE, payment.timestamp))

\* C15: a loaded record is visible if and only if its client name contains
\* the search text (case-insensitively), dateFrom is absent or not after the
\* record's display date, dateTo is absent or not before it, and the method
\* filter is empty or equal to the record's method.
C15_VisibleIffFourTests ==
    \A i \in DOMAIN payments :
        LET p == payments[i]
        IN  DashboardKeeps(p) <=>
               /\ includes(toLowerCase(p.client_name), toLowerCase(searchTerm))
               /\ dateFrom = <<>> \/ DateKeyLeq(dateFrom, DisplayDate(p))
               /\ dateTo = <<>> \/ DateKeyLeq(DisplayDate(p), dateTo)
               /\ paymentMethod = "" \/ p.payment_method = paymentMethod

\* The search and method tests of the filter.
PassesSearchAndMethod(p) ==
    /\ includes(toLowerCase(p.client_name), toLowerCase(searchTerm))
    /\ paymentMethod = "" \/ p.payment_method = paymentMethod

\* C16: an absent date bound never excludes a record.  With neither bound a
\* record is excluded by search or method only; with dateTo absent no record
\* is excluded for being late (every record a day or more after the start
\* of dateFrom is kept); with dateFrom absent no record is excluded for
\* being early (every record before the start of dateTo is kept).
C16_AbsentBoundKeeps ==
    \A i \in DOMAIN payments :
        LET p == payments[i]
        IN  PassesSearchAndMethod(p) =>
               /\ (dateFrom = <<>> /\ dateTo = <<>>) => DashboardKeeps(p)
               /\ (dateFrom # <<>> /\ dateTo = <<>>
                   /\ p.timestamp >= MinutesOf(AtTime(dateFrom, 0, 0)) + MinutesPerDay)
                      => DashboardKeeps(p)
               /\ (dateFrom = <<>> /\ dateTo # <<>>
                   /\ p.timestamp <= MinutesOf(AtTime(dateTo, 0, 0)))
                      => DashboardKeeps(p)

C16_Witness ==
    /\ dateFrom = <<2025, 10, 18>>
    /\ dateTo = <<>>
    /\ searchTerm = <<>>
    /\ paymentMethod = ""
    /\ Len(payments) = NumRecords
    /\ filteredPayments = payments

\* Sum of amount_paid over a set of records.
RECURSIVE SumOfAmounts(_)
SumOfAmounts(S) ==
    IF S = {} THEN 0
    ELSE LET r == CHOOSE x \in S : TRUE
         IN  r.amount_paid + SumOfAmounts(S \ {r})

\* C17: with no criteria the filter returns every loaded record, in order,
\* and the summary total is the sum of amount_paid over all of them,
\* negative amounts included.
C17_NoCriteriaKeepsAll ==
    (searchTerm = <<>> /\ dateFrom = <<>> /\ dateTo = <<>> /\ paymentMethod = "")
        => /\ filteredPayments = payments
           /\ summary(filteredPayments).total = SumOfAmounts(Range(payments))

C17_Witness ==
    /\ searchTerm = <<>> /\ dateFrom = <<>> /\ dateTo = <<>> /\ paymentMethod = ""
    /\ Len(filteredPayments) = NumRecords
    /\ \E p \in Range(payments) : p.amount_paid < 0
    /\ summary(filteredPayments).total
          < SumOfAmounts({p \in Range(payments) : p.amount_paid > 0})

\* The records of the worked example: Cash 100, Zelle 50, Check -20, all at
\* 2025-10-19T14:00Z.
ExampleRecords ==
    << [id |-> 1, client_name |-> <<"A","n","n">>, payment_method |-> "Cash",
        amount_paid |-> 10000, timestamp |-> UTC(2025, 10, 19, 14, 0),
        service_type |-> ""],
       [id |-> 2, client_name |-> <<"b","o","b">>, payment_method |-> "Zelle",
        amount_paid |-> 5000, timestamp |-> UTC(2025, 10, 19, 14, 0),
        service_type |-> ""],
       [id |-> 3, client_name |-> <<"A","N","N","A">>, payment_method |-> "Check",
        amount_paid |-> -2000, timestamp |-> UTC(2025, 10, 19, 14, 0),
        service_type |-> ""] >>

\* The per-method sums of a visible subset.
SumsByMethod(list) ==
    [cash     |-> SumOfAmounts({p \in Range(list) : p.payment_method = "Cash"}),
     zelle    |-> SumOfAmounts({p \in Range(list) : p.payment_method = "Zelle"}),
     check    |-> SumOfAmounts({p \in Range(list) : p.payment_method = "Check"}),
     bookerCC |-> SumOfAmounts({p \in Range(list) : p.payment_method = "Booker CC"}),
     total    |-> SumOfAmounts(Range(list))]

\* C18: each bucket of the summary is the signed sum of amount_paid over
\* the visible records of its method, with no clamping at zero; and the
\* example records, filtered for 2025-10-19 to 2025-10-19 with no method and
\* no search text, give cash 100, zelle 50, check -20, bookerCC 0, total 130.
C18_SignedSums ==
    /\ summary(filteredPayments) = SumsByMethod(filteredPayments)
    /\ (dateFrom = <<2025, 10, 19>> /\ dateTo = <<2025, 10, 19>>
        /\ paymentMethod = "" /\ searchTerm = <<>>)
          => summary(SelectSeq(ExampleRecords, DashboardKeeps))
                = [cash |-> 10000, zelle |-> 5000, check |-> -2000,
                   bookerCC |-> 0, total |-> 13000]

\* C19: when nothing is visible (no record loaded, or none matches) the
\* summary is all zeros and the table shows its empty state; a report with
\* no matching record has an all-zero summary, the "no records" block and
\* no table.
C19_EmptyStates ==
    /\ (~isLoading /\ filteredPayments = <<>>)
          => /\ summary(filteredPayments) = ZeroSummary
             /\ PaymentsTable(filteredPayments).emptyState
             /\ PaymentsTable(filteredPayments).rows = <<>>
    /\ (~isLoading /\ filteredPayments # <<>>)
          => ~PaymentsTable(filteredPayments).emptyState
    /\ (report.status = 200 /\ report.payments = <<>>)
          => /\ report.summary = ZeroSummary
             /\ report.html.noPayments
             /\ ~report.html.table
             /\ report.html.rows = <<>>
    /\ (report.status = 200 /\ report.payments # <<>>)
          => report.html.table /\ ~report.html.noPayments

C19_Witness ==
    /\ ~isLoading
    /\ payments # <<>>
    /\ filteredPayments = <<>>
    /\ report.status = 200
    /\ report.payments = <<>>
    /\ report.html.noPayments

(***************************************************************************)
(* Recomputation: the useMemo callback and the summary reduce run again.   *)
(***************************************************************************)
MaxRuns == 2

\* Instants at which a render happens.
RenderInstants == { UTC(2025, 10, 19, 15, 0), UTC(2025, 10, 20, 15, 0) }

RerunInit ==
    /\ FilterInit
    /\ viewerTZ \in {TIMEZONE, "Pacific/Tongatapu"}

\* A render at wall-clock time `now` computes the visible subset and the
\* summary from the loaded list and the criteria.
Recompute(now) ==
    /\ Cardinality(runs) < MaxRuns
    /\ runs' = runs \cup
          {[at |-> now, reportInHand |-> report.status = 200,
            payments |-> payments, searchTerm |-> searchTerm,
            dateFrom |-> dateFrom, dateTo |-> dateTo,
            paymentMethod |-> paymentMethod,
            visible |-> filteredPayments,
            summary |-> summary(filteredPayments),
            again |-> SelectSeq(filteredPayments, DashboardKeeps)]}
    /\ UNCHANGED <<viewerTZ, serverVars, uiVars, authVars, formVars, dataVars, criteriaVars,
                   report, nav, appVars>>

RerunNext ==
    \/ \E v \in {"", "Zelle"} : onPaymentMethodChange(v)
    \/ setToday
    \/ clearDates
    \/ GenerateReportOk
    \/ \E now \in RenderInstants : Recompute(now)

RerunSpec == RerunInit /\ [][RerunNext]_vars

SameInputs(a, b) ==
    /\ a.payments = b.payments
    /\ a.searchTerm = b.searchTerm
    /\ a.dateFrom = b.dateFrom
    /\ a.dateTo = b.dateTo
    /\ a.paymentMethod = b.paymentMethod

DeleteNext ==
    \/ clearDates
    \/ \E p \in Range(payments) : ConfirmDelete(p)
    \/ \E p \in Range(payments) : DeclineDelete(p)
    \/ \E i \in DOMAIN tasks : WriteOk(i)
    \/ \E i \in DOMAIN tasks : WriteFail(i)
    \/ \E i \in DOMAIN tasks : ListServe(i)
    \/ \E i \in DOMAIN tasks : ListOk(i)
    \/ \E i \in DOMAIN tasks : ListFail(i)

DeleteSpec == Init /\ [][DeleteNext]_vars

\* C21: a delete call to the store is started for a record only in the step
\* in which the user answers yes to the confirm() dialog of that record; a
\* step in which the user answers no starts no call and leaves the store,
\* the loaded list and every other piece of App state as they were.
C21_DeleteOnlyConfirmed ==
    [][ /\ \A i \in DOMAIN tasks' :
              (i > Len(tasks) /\ tasks'[i].kind = "delete")
                  => prompt' = [id |-> tasks'[i].target, confirmed |-> TRUE]
        /\ (prompt' # prompt /\ ~prompt'.confirmed)
              => UNCHANGED <<dataVars, appVars, criteriaVars, report>>
      ]_vars

C21_Witness ==
    \E i \in DOMAIN tasks :
        /\ tasks[i].kind = "delete" /\ tasks[i].wrote = "ok"
        /\ prompt.id # 0 /\ ~prompt.confirmed
        /\ prompt.id # tasks[i].target
        /\ \E r \in store : r.id = prompt.id
        /\ \A r \in store : r.id # tasks[i].target
(***************************************************************************)
(* Data entry: the add and edit forms with their required inputs.          *)
(***************************************************************************)
\* The edit form's content after its useEffect has copied initialData.
PopulatedForm(payment) ==
    [client_name |-> payment.client_name,
     payment_method |-> payment.payment_method,
     amount_paid |-> payment.amount_paid,
     timestamp |-> getDateTimeLocalValueInET(payment.timestamp),
     service_type |-> payment.service_type]

\* What the edit form can hold when it is submitted: something typed, or
\* the populated content left as it is.
EditInputs ==
    FormInputs \cup (IF editingPayment = NoRow THEN {}
                     ELSE {PopulatedForm(editingPayment)})

\* The forms on screen.
OpenForms ==
    (IF isFormOpen THEN {"add"} ELSE {})
        \cup (IF editingPayment # NoRow THEN {"edit"} ELSE {})

\* Submit of a form with a required input empty: the browser shows its
\* validation message and fires no submit event.
SubmitBlocked(form, fd) ==
    /\ ~isLoading
    /\ form \in OpenForms
    /\ ~isSubmitting[form]
    /\ ~FormValid(fd)
    /\ blocked' = [form |-> form, data |-> fd]
    /\ UNCHANGED <<viewerTZ, serverVars, runs, prompt, authVars, formVars,
                   criteriaVars, nav, dataVars, report, appVars>>

EntryNext ==
    \/ OpenAddForm
    \/ CancelAddForm
    \/ \E p \in Range(payments) : onEdit(p)
    \/ CancelEditForm
    \/ \E fd \in FormInputs : SubmitAdd(fd)
    \/ \E fd \in EditInputs : SubmitEdit(fd)
    \/ \E fd \in EditInputs : SubmitBlocked("edit", fd)
    \/ \E fd \in FormInputs : SubmitBlocked("add", fd)
    \/ clearDates
    \/ \E i \in DOMAIN tasks : WriteOk(i)
    \/ \E i \in DOMAIN tasks : WriteFail(i)
    \/ \E i \in DOMAIN tasks : ListServe(i)
    \/ \E i \in DOMAIN tasks : ListOk(i)
    \/ \E i \in DOMAIN tasks : ListFail(i)

EntrySpec == Init /\ [][EntryNext]_vars

\* C22: a submission with a required field missing (client name, payment
\* method, amount, date and time) never reaches the store: every insert or
\* update that is started carries all four, and a blocked submission starts
\* no call and changes neither the store nor the App's state.
C22_RequiredFields ==
    [][ /\ \A i \in DOMAIN tasks' :
              (i > Len(tasks) /\ tasks'[i].kind \in {"add", "update"})
                  => \E fd \in EditInputs :
                        /\ fd.client_name # <<>>
                        /\ fd.payment_method \in Range(Methods)
                        /\ fd.amount_paid # 0
                        /\ fd.timestamp # NoWall
                        /\ tasks'[i].row = RowOf(fd, tasks'[i].target)
        /\ blocked' # blocked => UNCHANGED <<dataVars, appVars>>
      ]_vars

C22_Witness ==
    /\ blocked.form = "add" /\ blocked.data.client_name = <<>>
    /\ isFormOpen /\ ~isSubmitting.add
    /\ \A i \in DOMAIN tasks : tasks[i].kind # "add"
\* The onSubmit calls of the mounted form instance that have not settled.
InFlight(form) ==
    { i \in DOMAIN tasks :
        /\ tasks[i].kind \in {"add", "update"}
        /\ FormOfKind(tasks[i].kind) = form
        /\ tasks[i].live
        /\ tasks[i].pc # "done" }

\* C23: at most one submit per form at a time. A mounted form never has
\* two onSubmit calls in flight, and its isSubmitting flag is true exactly
\* while one is: it is false again once the call has settled, whether the
\* store call succeeded or failed.
C23_OneSubmitInFlight ==
    \A form \in {"add", "edit"} :
        /\ Cardinality(InFlight(form)) <= 1
        /\ isSubmitting[form] <=> InFlight(form) # {}

C23_Witness ==
    \E i, j \in DOMAIN tasks :
        /\ i < j
        /\ tasks[i].kind = "add" /\ tasks[i].wrote = "failed" /\ tasks[i].live
        /\ tasks[j].kind = "add" /\ tasks[j].pc = "write"
        /\ isSubmitting.add
\* C28: an amount of zero can be entered in the add form, submitted and
\* stored, like a negative or a positive one: the form never stops a
\* submission whose amount was entered as 0 and whose other required
\* fields are filled.
C28_ZeroAmountSubmits ==
    ~ ( /\ blocked.form = "add"
        /\ blocked.data.client_name # <<>>
        /\ blocked.data.payment_method \in Range(Methods)
        /\ blocked.data.timestamp # NoWall
        /\ blocked.data.amount_paid = AmountState(<<0>>) )

C25_UnchangedEditKeepsRecord ==
    [][ \A i \in DOMAIN tasks' :
          ( /\ i > Len(tasks)
            /\ tasks'[i].kind = "update"
            /\ tasks'[i].row = RowOf(PopulatedForm(editingPayment),
                                     editingPayment.id) )
              => tasks'[i].row = editingPayment
      ]_vars
(***************************************************************************)
(* Order of the visible records; inverted date ranges.                     *)
(***************************************************************************)
\* sub lists elements of full, each once, in the order full has them.
KeepsOrder(sub, full) ==
    LET Kept(p) == p \in Range(sub)
    IN  sub = SelectSeq(full, Kept)

\* C26: filtering keeps the order of the loaded list. The visible records
\* are a subsequence of the loaded ones (timestamp descending): nothing is
\* reordered or shown twice.
C26_FilterKeepsOrder ==
    /\ KeepsOrder(filteredPayments, payments)
    /\ \A i, j \in DOMAIN filteredPayments :
          i < j => filteredPayments[i].timestamp >= filteredPayments[j].timestamp

C26_Witness ==
    /\ Len(payments) = 3
    /\ Len(filteredPayments) = 2
    /\ filteredPayments[1] = payments[2]
    /\ filteredPayments[2] = payments[3]
    /\ filteredPayments[1].timestamp > filteredPayments[2].timestamp
    /\ searchTerm = <<"a","n">> /\ dateFrom = <<>> /\ dateTo = <<>>

\* C27: a range whose dateFrom is later than its dateTo is not an error.
\* The dashboard shows no record and a summary of zeros without any alert,
\* and the report endpoint answers 200 with a report of no records.
C27_InvertedRange ==
    (dateFrom # <<>> /\ dateTo # <<>> /\ ~DateKeyLeq(dateFrom, dateTo)) =>
        /\ filteredPayments = <<>>
        /\ summary(filteredPayments) = ZeroSummary
        /\ alerts = 0
        /\ report # NoReport =>
              /\ report.status = 200
              /\ report.payments = <<>>
              /\ report.summary = ZeroSummary
              /\ report.html.noPayments

C27_Witness ==
    /\ dateFrom = <<2025, 10, 20>> /\ dateTo = <<2025, 10, 19>>
    /\ Len(payments) = 3
    /\ searchTerm = <<>> /\ paymentMethod = ""
    /\ report.status = 200
    /\ report.dateFrom = dateFrom /\ report.dateTo = dateTo
(***************************************************************************)
(* Root: the session gate in front of the App.                             *)
(***************************************************************************)
\* What the session provider can report.
Sessions == [user : {NoUser, "owner"}, loading : BOOLEAN]

\* The state of an App instance when it is created, with the tasks ts.
FreshApp(date, ts) ==
    /\ payments' = <<>>
    /\ searchTerm' = <<>> /\ dateFrom' = date /\ dateTo' = date
    /\ paymentMethod' = ""
    /\ report' = NoReport /\ nav' = NoNav
    /\ isLoading' = TRUE /\ isFormOpen' = FALSE /\ editingPayment' = NoRow
    /\ isSubmitting' = [add |-> FALSE, edit |-> FALSE]
    /\ tasks' = ts
    /\ alerts' = 0 /\ downloads' = 0

RootInit ==
    /\ viewerTZ = TIMEZONE
    /\ Deployed
    /\ runs = {}
    /\ prompt = NoPrompt /\ blocked = NoBlocked
    /\ session = [user |-> NoUser, loading |-> TRUE]
    /\ screen = Root(session)
    /\ store = { SampleRecord(i) : i \in 1..InitialRows }
    /\ nextId = InitialRows + 1
    /\ payments = <<>>
    /\ searchTerm = <<>> /\ dateFrom = <<>> /\ dateTo = <<>>
    /\ paymentMethod = ""
    /\ report = NoReport /\ nav = NoNav
    /\ isLoading = TRUE /\ isFormOpen = FALSE /\ editingPayment = NoRow
    /\ isSubmitting = [add |-> FALSE, edit |-> FALSE]
    /\ tasks = <<>> /\ alerts = 0 /\ downloads = 0
    /\ formData = NoValue /\ submitted = NoValue
    /\ formTouched = FALSE /\ formPc = "closed"

\* The provider reports a new session and Root renders again: the App is
\* created (its mount effect calls loadPayments) when Root starts to return
\* it, and discarded with its state when Root stops returning it.
SessionChange(s) ==
    /\ s # session
    /\ session' = s
    /\ screen' = Root(s)
    /\ IF Root(s) = "app" /\ screen # "app"
       THEN \E n \in NowInstants :
               FreshApp(getCurrentDateInET(n),
                        << CallLoad([NewTask("mount", "listReq", NoRow, 0)
                                        EXCEPT !.calls = 0]) >>)
       ELSE IF Root(s) # "app" /\ screen = "app"
       THEN FreshApp(<<>>, <<>>)
       ELSE UNCHANGED <<payments, criteriaVars, report, nav, isLoading,
                        isFormOpen, editingPayment, isSubmitting, tasks,
                        alerts, downloads>>
    /\ UNCHANGED <<viewerTZ, serverVars, runs, uiVars, formVars, store, nextId>>

RootNext ==
    \/ \E s \in Sessions : SessionChange(s)
    \/ screen = "app" /\ \E i \in DOMAIN tasks : ListServe(i)
    \/ screen = "app" /\ \E i \in DOMAIN tasks : ListOk(i)
    \/ screen = "app" /\ \E i \in DOMAIN tasks : ListFail(i)
    \/ screen = "app" /\ \E v \in SearchTerms : onSearchChange(v)
    \/ screen = "app" /\ \E v \in Range(Methods) \cup {""} : onPaymentMethodChange(v)
    \/ screen = "app" /\ clearDates
    \/ screen = "app" /\ OpenAddForm
    \/ screen = "app" /\ CancelAddForm

RootSpec == RootInit /\ [][RootNext]_vars

\* C29: the App exists only while the session provider reports a user and
\* has finished loading; while it is loading Root shows the loading view,
\* and with no user the login view. No App state or store call exists
\* outside the signed-in state.
C29_SessionGate ==
    /\ screen = "app" <=> (session.user # NoUser /\ ~session.loading)
    /\ screen = "loading" <=> session.loading
    /\ screen = "login" <=> (~session.loading /\ session.user = NoUser)
    /\ (tasks # <<>> \/ payments # <<>> \/ isFormOpen) => screen = "app"

C29_Witness ==
    /\ screen = "app"
    /\ session = SignedIn
    /\ Len(payments) = InitialRows
    /\ searchTerm = <<"B">>
(***************************************************************************)
(* Day navigation next to the other filter controls.                       *)
(***************************************************************************)
\* The dashboard with all sample records loaded.
DayInit == FilterInit /\ store = SampleRecords

DayNext ==
    \/ goToPreviousDay
    \/ goToNextDay
    \/ \E v \in SearchTerms : onSearchChange(v)
    \/ \E v \in Range(Methods) \cup {""} : onPaymentMethodChange(v)
    \/ \E v \in DatePicks : onDateToChange(v)
    \/ clearDates

DaySpec == DayInit /\ [][DayNext]_vars

\* C30: a previous-day or next-day step happens only with a dateFrom set;
\* it sets dateFrom and dateTo to the same new date, the one computed from
\* the old dateFrom, and leaves the search text, the method filter, the
\* loaded records and the store as they were. With dateFrom empty the
\* buttons do nothing.
C30_DayStepFrame ==
    [][ (goToPreviousDay \/ goToNextDay) =>
            /\ dateFrom # <<>>
            /\ dateFrom' = dateTo'
            /\ dateFrom' \in {ShiftedDay(dateFrom, -1), ShiftedDay(dateFrom, 1)}
            /\ UNCHANGED <<searchTerm, paymentMethod, payments, store>>
      ]_vars

C30_Witness ==
    /\ nav.trail = "prev"
    /\ nav.origin = <<2025, 10, 19>>
    /\ dateFrom = <<2025, 10, 18>> /\ dateTo = <<2025, 10, 18>>
    /\ searchTerm = <<"B">> /\ paymentMethod = "Zelle"
    /\ Len(payments) = NumRecords
====
